---- MODULE Spec2Model ----
(***************************************************************************)
(* Model of librelay-node's MessageReceiver (src/src/message_receiver.js)  *)
(* and its EventTarget base class (src/src/event_target.js).               *)
(*                                                                         *)
(* Every handler is an async function: the code between two awaits runs    *)
(* atomically, so one action of the model is one such run.  The position   *)
(* of a suspended handler is its pc.                                       *)
(***************************************************************************)
EXTENDS Integers, Sequences, FiniteSets, TLC

\* ---------------------------------------------------------------- bounds
MaxRequests == 2
MaxListeners == 2
MaxBufLen == 4
MaxDevices == 1
MaxAttachments == 1
MaxRead == 1
MaxBatches == 2
MaxAttempts == 2

\* ------------------------------------------------------------- constants
PAD_BYTE == 128
\* The close code after which onSocketClose does not reconnect.
CLOSE_TERMINAL == 3000
Bytes == {0, 1, 128, 255}

VARIABLES
    listeners,   \* EventTarget._listeners: the registry of listeners
    nlisteners,  \* number of addEventListener calls made so far
    reqs,        \* per request: position and locals of its handleRequest call
    queue,       \* queueAsync bucket of this receiver: submitted, not started
    active,      \* the request whose task the queue executor is awaiting, or 0
    dispatched,  \* history: the events given to dispatchEvent, in order
    responded,   \* history: per request, the statuses given to request.respond
    obs,         \* history: what the handler that started last has done
    wsr,         \* this.wsr is set: the receiver was built with a transport
    drain,       \* position, locals and history of the drain() call
    conn,        \* the transport's socket and the calls made on it
    ubuf,        \* unpad: the argument
    ures,        \* unpad: the result
    upc          \* unpad: "idle" | "call" | "done"

vars == <<listeners, nlisteners, reqs, queue, active, dispatched, responded, obs,
          wsr, drain, conn, ubuf, ures, upc>>

recvVars == <<listeners, nlisteners, reqs, queue, active, dispatched, responded, obs>>
unpadVars == <<ubuf, ures, upc>>
drainVars == <<wsr, drain>>
connVars == <<conn>>

\* ------------------------------------------------------------------ unpad
Returned(v) == [ok |-> TRUE, val |-> v]
Thrown(e) == [ok |-> FALSE, val |-> e]

\* Buffer.slice(0, i) with the code's 0-based i: the first i bytes.
Slice0(buf, i) == SubSeq(buf, 1, i)

\* A slip of the loop: the slice keeps the 0x80 marker.
RECURSIVE unpadLoopKeepsMarker(_, _)
unpadLoopKeepsMarker(buf, i) ==
    IF i < 0 THEN Returned(buf)
    ELSE IF buf[i + 1] = PAD_BYTE THEN Returned(Slice0(buf, i + 1))
    ELSE IF buf[i + 1] # 0 THEN Thrown("Error")
    ELSE unpadLoopKeepsMarker(buf, i - 1)

\* The loop of unpad, i being the code's 0-based index.
RECURSIVE unpadLoop(_, _)
unpadLoop(buf, i) ==
    IF i < 0 THEN Returned(buf)
    ELSE IF buf[i + 1] = PAD_BYTE THEN Returned(Slice0(buf, i))
    ELSE IF buf[i + 1] # 0 THEN Thrown("Error")
    ELSE unpadLoop(buf, i - 1)

unpad(buf) == unpadLoop(buf, Len(buf) - 1)

RECURSIVE SeqsUpTo(_, _)
SeqsUpTo(S, n) ==
    IF n = 0 THEN {<<>>}
    ELSE LET shorter == SeqsUpTo(S, n - 1)
         IN  shorter \cup {Append(s, b) : s \in {t \in shorter : Len(t) = n - 1}, b \in S}

Buffers == SeqsUpTo(Bytes, MaxBufLen)

Zeros(k) == [i \in 1..k |-> 0]

\* ------------------------------------------------------------ EventTarget
EventNames == {"message", "sent", "read", "receipt", "keychange", "error"}

\* _listeners: undefined until the first addEventListener; afterwards an
\* object whose keys are the names registered so far.  Listeners are
\* identified by their registration number.
NoListeners == [set |-> FALSE, keys |-> {}, cbs |-> [n \in EventNames |-> <<>>]]

addEventListener(reg, name, cb) ==
    [set |-> TRUE,
     keys |-> reg.keys \cup {name},
     cbs |-> [reg.cbs EXCEPT ![name] = Append(@, cb)]]

\* What a listener may do when it is called.
ListenerActs == {"return", "raise", "accept"}

\* ------------------------------------------------- requests and envelopes
Verbs == {"PUT", "GET"}
Paths == {"/api/v1/message", "/v1/keepalive"}
EnvTypes == {"CIPHERTEXT", "PREKEY_BUNDLE", "RECEIPT", "UNKNOWN"}

Envelopes == [type : EnvTypes, content : BOOLEAN, legacy : BOOLEAN]
NoEnv == [type |-> "NONE", content |-> FALSE, legacy |-> FALSE]
BadFrame == [type |-> "BAD", content |-> FALSE, legacy |-> FALSE]
\* What decryptWebsocketMessage + Envelope.decode make of a request body.
Frames == Envelopes \cup {BadFrame}

\* Decoded DataMessage: END_SESSION flag and number of attachments.
DataMsgs == [endSession : BOOLEAN, natt : 0..MaxAttachments]
NoMsg == [kind |-> "none", endSession |-> FALSE, natt |-> 0]

\* No sync message seen; else the envelope's source and device against the
\* receiver's own, the variant fields the message carries and the length of
\* its read array.
NoSync == [seen |-> FALSE, own |-> TRUE, samedev |-> FALSE, fields |-> {}, nread |-> 0]

Requests == 1..MaxRequests

NewRequest(r) ==
    [id |-> r, pc |-> "idle",
     caller |-> "none",    \* who runs in this slot: "request" (handleRequest),
                           \* "drain" (handleEnvelope called by drain) or
                           \* "close" (onSocketClose)
     verb |-> "", path |-> "",
     code |-> 0,           \* onSocketClose: ev.code
     attempt |-> 0,        \* onSocketClose: the local attempt
     probes |-> 0,         \* history: getDevices calls of this onSocketClose
     sleeps |-> 0,         \* history: sleep calls of this onSocketClose
     connects |-> 0,       \* history: connect calls of this onSocketClose
     frame |-> "none",     \* "none" | "bad" | "ok": outcome of frame decoding
     out |-> "none",       \* "none" | "returned" | "raised": how handleRequest ended
     env |-> NoEnv, keyChange |-> FALSE,
     reentrant |-> FALSE,
     nEnter |-> 0,         \* history: calls of handleEnvelope
     nReentry |-> 0,       \* history: calls of handleEnvelope with reentrant = true
     nIke |-> 0,           \* history: IncomingIdentityKeyErrors raised by decrypt
     accepted |-> FALSE,   \* history: the keychange event came back accepted
     route |-> "none",     \* history: where the last decoded message was routed
     processed |-> FALSE,  \* history: processDecrypted returned in the last call
     envOut |-> "none",    \* history: how the outermost handleEnvelope ended
     msg |-> NoMsg, pend |-> 0, nread |-> 0,
     ev |-> "", li |-> 0, cont |-> "",
     cur |-> 0,            \* the listener being awaited (registration number)
     caught |-> FALSE,     \* a listener of this dispatch raised and was caught
     acc |-> FALSE]        \* ev.accepted of the event being dispatched

\* What the handler that started last has done so far (history only: no
\* operator reads it).  Handlers run one at a time, so one record serves.
NewObs(r) ==
    [req |-> r,            \* the request being handled, 0 before the first
     syn |-> NoSync,       \* the sync message given to handleSyncMessage (its
                           \* fields are kept until the handler settles)
     es |-> "none",        \* address whose sessions END_SESSION closes
     listed |-> FALSE,     \* storage.getDeviceIds returned its list
     ndev |-> 0,           \* device ids storage.getDeviceIds listed
     nClose |-> 0,         \* closeOpenSessionForDevice calls made
     nClosed |-> 0,        \* closeOpenSessionForDevice calls completed
     nFetch |-> 0,         \* handleAttachment calls made
     nRet |-> 0,           \* dispatchEvent calls that returned
     nRaise |-> 0]         \* dispatchEvent calls that raised

Ev(r, type, kc) == [req |-> r, type |-> type, keyChange |-> kc]

\* The handler of request r together with the histories it appends to.
Ctx(r) == [h |-> reqs[r], log |-> dispatched, resp |-> responded[r], obs |-> obs]

\* The handler of slot r has run to its next await, the slots having been
\* rq before.
RunIn(rq, r, c) ==
    /\ reqs' = [rq EXCEPT ![r] = c.h]
    /\ dispatched' = c.log
    /\ responded' = [responded EXCEPT ![r] = c.resp]
    /\ obs' = c.obs

Run(r, c) == RunIn(reqs, r, c)

respond(c, status) == [c EXCEPT !.resp = Append(@, status)]

\* handleRequest settles: its locals are gone, the histories stay.
Settle(c, outcome) ==
    [c EXCEPT !.h.pc = "done", !.h.out = outcome, !.h.env = NoEnv,
              !.h.reentrant = FALSE, !.h.msg = NoMsg, !.h.pend = 0,
              !.h.nread = 0, !.h.ev = "", !.h.li = 0, !.h.cont = "",
              !.h.cur = 0, !.h.acc = FALSE, !.h.caught = FALSE,
              !.obs.syn.fields = {}, !.obs.syn.nread = 0]

\* A slip of the finally clause: the ACK is sent only on normal return.
EnvelopeRaisedNoAck(c) == Settle([c EXCEPT !.h.envOut = "raised"], "raised")

\* handleEnvelope raised to handleRequest: the finally clause ACKs and the
\* error propagates.  Raised to drain, it ends the slot: drain goes on from
\* its await.
EnvelopeRaised(c) ==
    IF c.h.caller = "drain" THEN Settle([c EXCEPT !.h.envOut = "raised"], "raised")
    ELSE Settle(respond([c EXCEPT !.h.envOut = "raised"], 200), "raised")

\* handleEnvelope returned to handleRequest: the finally clause ACKs.
EnvelopeReturned(c) ==
    IF c.h.caller = "drain" THEN Settle([c EXCEPT !.h.envOut = "returned"], "returned")
    ELSE Settle(respond([c EXCEPT !.h.envOut = "returned"], 200), "returned")

\* errors.js: IncomingIdentityKeyError belongs to the TextSecureError family.
IsTextSecureError(e) == e \in {"TextSecureError", "IncomingIdentityKeyError"}

RECURSIVE dispatchEvent(_, _, _), AfterDispatch(_), DispatchRaised(_)
RECURSIVE handleEnvelope(_, _), HandlerRaised(_, _), handleRead(_)

\* dispatchEvent up to the call of its first listener (pc "listener": the
\* listener numbered li has been called and has not settled).  cont names
\* the statement of the caller that awaits the dispatch.
dispatchEvent(c, type, cont) ==
    LET kc == IF type = "message" THEN c.h.keyChange ELSE FALSE
        c1 == [c EXCEPT !.log = Append(@, Ev(c.h.id, type, kc)),
                        !.h.ev = type, !.h.cont = cont, !.h.acc = FALSE]
    IN  IF ~listeners.set THEN AfterDispatch(c1)
        ELSE IF type \notin listeners.keys THEN DispatchRaised(c1)
        ELSE [c1 EXCEPT !.h.pc = "listener", !.h.li = 1,
                        !.h.cur = listeners.cbs[type][1]]

\* A slip of the loop of dispatchEvent: a listener's error is not caught.
listenerSettledUncaught(c, act) ==
    LET c1 == [c EXCEPT !.h.acc = @ \/ act = "accept"]
    IN  IF act = "raise" THEN DispatchRaised(c1)
        ELSE IF c.h.li < Len(listeners.cbs[c.h.ev])
        THEN [c1 EXCEPT !.h.pc = "listener", !.h.li = @ + 1,
                        !.h.cur = listeners.cbs[c.h.ev][c.h.li + 1]]
        ELSE AfterDispatch(c1)

\* The loop of dispatchEvent after the awaited listener settled by act: a
\* raise is caught and logged, and the next listener of the array is called.
listenerSettled(c, act) ==
    LET c1 == [c EXCEPT !.h.acc = @ \/ act = "accept",
                        !.h.caught = @ \/ act = "raise"]
    IN  IF c.h.li < Len(listeners.cbs[c.h.ev])
        THEN [c1 EXCEPT !.h.pc = "listener", !.h.li = @ + 1,
                        !.h.cur = listeners.cbs[c.h.ev][c.h.li + 1]]
        ELSE AfterDispatch(c1)

\* A slip of the re-dispatch: envelope.keyChange is not set.
AcceptKeyChangeUnmarked(c) == handleEnvelope(c, TRUE)

\* The keychange listener accepted: mark the envelope and re-dispatch it.
AcceptKeyChange(c) == handleEnvelope([c EXCEPT !.h.keyChange = TRUE], TRUE)

\* The statement after an awaited dispatchEvent that returned.
AfterDispatch(c) ==
    LET c1 == [c EXCEPT !.h.ev = "", !.h.li = 0, !.h.cont = "", !.h.acc = FALSE,
                        !.h.cur = 0, !.h.caught = FALSE, !.obs.nRet = @ + 1]
    IN  CASE c.h.cont = "frameError" -> Settle(c1, "raised")
          [] c.h.cont = "keychange" ->
                IF c.h.acc THEN AcceptKeyChange([c1 EXCEPT !.h.accepted = TRUE])
                ELSE EnvelopeReturned(c1)
          [] c.h.cont = "envError" -> EnvelopeRaised(c1)
          [] c.h.cont = "read" -> handleRead(c1)
          [] c.h.cont = "backoff" -> [c1 EXCEPT !.h.pc = "sleep", !.h.sleeps = @ + 1]
          [] OTHER -> EnvelopeReturned(c1)

\* dispatchEvent raised (the iteration over a missing key): where the
\* awaiting statement stands decides who catches it.
DispatchRaised(c) ==
    LET c1 == [c EXCEPT !.h.ev = "", !.h.li = 0, !.h.cont = "", !.h.acc = FALSE,
                        !.h.cur = 0, !.h.caught = FALSE, !.obs.nRaise = @ + 1]
    IN  CASE c.h.cont = "frameError" -> Settle(c1, "raised")
          [] c.h.cont \in {"keychange", "envError"} -> EnvelopeRaised(c1)
          [] c.h.cont = "backoff" -> Settle(c1, "raised")
          [] OTHER -> HandlerRaised(c1, "Error")

\* A slip of the catch clause: the reentrant flag is not consulted.
HandlerRaisedUnbounded(c, e) ==
    LET c1 == [c EXCEPT !.h.msg = NoMsg, !.h.pend = 0, !.h.nread = 0]
    IN  IF e = "MessageCounterError" THEN EnvelopeReturned(c1)
        ELSE IF e = "IncomingIdentityKeyError"
            THEN dispatchEvent(c1, "keychange", "keychange")
        ELSE IF IsTextSecureError(e) THEN EnvelopeReturned(c1)
        ELSE dispatchEvent(c1, "error", "envError")

\* The catch clause of handleEnvelope.
HandlerRaised(c, e) ==
    LET c1 == [c EXCEPT !.h.msg = NoMsg, !.h.pend = 0, !.h.nread = 0]
    IN  IF e = "MessageCounterError" THEN EnvelopeReturned(c1)
        ELSE IF e = "IncomingIdentityKeyError" /\ ~c.h.reentrant
            THEN dispatchEvent(c1, "keychange", "keychange")
        ELSE IF IsTextSecureError(e) THEN EnvelopeReturned(c1)
        ELSE dispatchEvent(c1, "error", "envError")

\* decrypt up to the await of the session cipher.
decrypt(c) ==
    IF c.h.env.type \in {"CIPHERTEXT", "PREKEY_BUNDLE"}
    THEN [c EXCEPT !.h.pc = "decrypt"]
    ELSE HandlerRaised(c, "Error")

handleDeliveryReceipt(c) ==
    dispatchEvent([c EXCEPT !.h.route = "receipt"], "receipt", "receipt")

handleEnvelope(c, reentrant) ==
    LET c1 == [c EXCEPT !.h.reentrant = reentrant,
                        !.h.nEnter = @ + 1,
                        !.h.nReentry = IF reentrant THEN @ + 1 ELSE @,
                        !.h.route = "none", !.h.processed = FALSE]
    IN  IF c.h.env.type = "RECEIPT" THEN handleDeliveryReceipt(c1)
        ELSE IF c.h.env.content \/ c.h.env.legacy THEN decrypt(c1)
        ELSE EnvelopeRaised(c1)

handleRead(c) ==
    IF c.h.nread = 0 THEN EnvelopeReturned(c)
    ELSE dispatchEvent([c EXCEPT !.h.nread = @ - 1], "read", "read")

\* A slip of handleRequest: the ACK is sent before the envelope is handled.
handleRequestAckFirst(c0, frame) ==
    LET c == [c0 EXCEPT !.obs = NewObs(c0.h.id)]
    IN  IF c.h.path # "/api/v1/message" \/ c.h.verb # "PUT"
        THEN Settle(c, "raised")
        ELSE IF frame = BadFrame
        THEN dispatchEvent(respond([c EXCEPT !.h.frame = "bad"], 500),
                           "error", "frameError")
        ELSE handleEnvelope(respond([c EXCEPT !.h.frame = "ok", !.h.env = frame], 200),
                            FALSE)

\* handleRequest up to its first await; frame is what the body decodes to.
handleRequest(c0, frame) ==
    LET c == [c0 EXCEPT !.obs = NewObs(c0.h.id)]
    IN  IF c.h.path # "/api/v1/message" \/ c.h.verb # "PUT"
        THEN Settle(c, "raised")
        ELSE IF frame = BadFrame
        THEN dispatchEvent(respond([c EXCEPT !.h.frame = "bad"], 500),
                           "error", "frameError")
        ELSE handleEnvelope([c EXCEPT !.h.frame = "ok", !.h.env = frame], FALSE)

\* ------------------------------------------------------- content pipeline
SyncFields == {"sent", "read", "contacts", "groups", "blocked", "request"}

\* What Content.decode / DataMessage.decode make of the unpadded plaintext,
\* with the envelope's source and sourceDevice compared to the receiver's
\* own (only handleSyncMessage reads them, once per envelope).
\* Sync messages carry at most two of the variant fields.
Decodings ==
    {d \in [ok : BOOLEAN, hasSync : BOOLEAN, fields : SUBSET SyncFields,
            nread : 0..MaxRead, hasData : BOOLEAN, msg : DataMsgs,
            own : BOOLEAN, samedev : BOOLEAN] :
        /\ Cardinality(d.fields) <= 2
        /\ ~d.ok => ~d.hasSync /\ ~d.hasData
        /\ ~d.hasSync => d.fields = {} /\ d.own /\ ~d.samedev
        /\ (~d.own \/ d.samedev) => d.fields = {"sent"} /\ ~d.hasData
        /\ "read" \notin d.fields => d.nread = 0
        /\ (~d.hasData /\ "sent" \notin d.fields) => d.msg = [endSession |-> FALSE, natt |-> 0]}

NoDecoding == CHOOSE d \in Decodings : ~d.ok
\* The plaintext of a legacy message is decoded as a DataMessage.
DataDecodings == {d \in Decodings : ~d.hasSync /\ (d.ok => d.hasData)}

\* What the session cipher may hand back or raise.
CipherErrors == {"MessageCounterError", "UnknownIdentityKey", "TextSecureError", "Error"}
CipherOutputs == {<<1, 128, 0>>, <<1, 255>>}
CipherResults == {Thrown(e) : e \in CipherErrors} \cup {Returned(b) : b \in CipherOutputs}

\* What a request to the service or the session store may raise.
ServiceErrors == {"TextSecureError", "Error"}

decryptPreKeyWhisperMessage(res) ==
    IF res.ok THEN unpad(res.val)
    ELSE IF res.val = "UnknownIdentityKey" THEN Thrown("IncomingIdentityKeyError")
    ELSE res

\* decrypt after the await of the session cipher, whose result is res.
decryptResume(type, res) ==
    IF type = "CIPHERTEXT" THEN (IF res.ok THEN unpad(res.val) ELSE res)
    ELSE decryptPreKeyWhisperMessage(res)

Emit(c) ==
    LET type == IF c.h.msg.kind = "sent" THEN "sent" ELSE "message"
    IN  dispatchEvent([c EXCEPT !.h.processed = TRUE, !.h.msg = NoMsg], type, type)

processDecrypted(c) ==
    IF c.h.msg.endSession THEN Emit(c)
    ELSE IF c.h.msg.natt = 0 THEN Emit(c)
    ELSE [c EXCEPT !.h.pc = "attachments", !.h.pend = c.h.msg.natt,
                   !.obs.nFetch = @ + c.h.msg.natt]

\* handleEndSession(addr) up to the await of storage.getDeviceIds.
handleEndSession(c, addr) == [c EXCEPT !.h.pc = "getDeviceIds", !.obs.es = addr]

\* A slip of handleEndSession: the closes are started and not awaited.
closeSessionsNotAwaited(c0, n) ==
    processDecrypted([c0 EXCEPT !.obs.listed = TRUE, !.obs.ndev = n,
                                !.obs.nClose = @ + n])

\* handleEndSession after getDeviceIds listed n devices: one
\* closeOpenSessionForDevice call per device, all awaited together.
closeSessions(c0, n) ==
    LET c == [c0 EXCEPT !.obs.listed = TRUE, !.obs.ndev = n]
    IN  IF n = 0 THEN processDecrypted(c)
        ELSE [c EXCEPT !.h.pc = "closing", !.h.pend = n, !.obs.nClose = @ + n]

\* One closeOpenSessionForDevice completed; the last one ends handleEndSession.
sessionClosed(c) ==
    IF c.h.pend = 1
    THEN processDecrypted([c EXCEPT !.h.pend = 0, !.obs.nClosed = @ + 1])
    ELSE [c EXCEPT !.h.pc = "closing", !.h.pend = @ - 1, !.obs.nClosed = @ + 1]

handleDataMessage(c, m) ==
    LET c1 == [c EXCEPT !.h.route = "data",
                        !.h.msg = [kind |-> "data", endSession |-> m.endSession,
                                   natt |-> m.natt]]
    IN  IF m.endSession THEN handleEndSession(c1, "source") ELSE processDecrypted(c1)

handleSentMessage(c, m) ==
    LET c1 == [c EXCEPT !.h.route = "sent",
                        !.h.msg = [kind |-> "sent", endSession |-> m.endSession,
                                   natt |-> m.natt]]
    IN  IF m.endSession THEN handleEndSession(c1, "destination")
        ELSE processDecrypted(c1)

handleBlocked(c) == HandlerRaised([c EXCEPT !.h.route = "blocked"], "Error")

\* A slip of handleSyncMessage: blocked is tested before contacts and groups.
handleSyncMessageBlockedFirst(c, d) ==
    IF ~d.own THEN HandlerRaised([c EXCEPT !.h.route = "foreign"], "Error")
    ELSE IF d.samedev THEN HandlerRaised([c EXCEPT !.h.route = "self"], "Error")
    ELSE IF "sent" \in d.fields THEN handleSentMessage(c, d.msg)
    ELSE IF "read" \in d.fields /\ d.nread > 0
        THEN handleRead([c EXCEPT !.h.route = "read", !.h.nread = d.nread])
    ELSE IF "blocked" \in d.fields THEN handleBlocked(c)
    ELSE IF d.fields \cap {"contacts", "groups", "request"} # {}
        THEN HandlerRaised([c EXCEPT !.h.route = "deprecated"], "Error")
    ELSE HandlerRaised([c EXCEPT !.h.route = "emptysync"], "Error")

\* A slip of handleSyncMessage: the source and device guards are missing.
handleSyncMessageUnguarded(c, d) ==
    IF "sent" \in d.fields THEN handleSentMessage(c, d.msg)
    ELSE IF "read" \in d.fields /\ d.nread > 0
        THEN handleRead([c EXCEPT !.h.route = "read", !.h.nread = d.nread])
    ELSE HandlerRaised([c EXCEPT !.h.route = "emptysync"], "Error")

handleSyncMessage(c, d) ==
    IF ~d.own THEN HandlerRaised([c EXCEPT !.h.route = "foreign"], "Error")
    ELSE IF d.samedev THEN HandlerRaised([c EXCEPT !.h.route = "self"], "Error")
    ELSE IF "sent" \in d.fields THEN handleSentMessage(c, d.msg)
    ELSE IF "read" \in d.fields /\ d.nread > 0
        THEN handleRead([c EXCEPT !.h.route = "read", !.h.nread = d.nread])
    ELSE IF "contacts" \in d.fields
        THEN HandlerRaised([c EXCEPT !.h.route = "deprecated"], "Error")
    ELSE IF "groups" \in d.fields
        THEN HandlerRaised([c EXCEPT !.h.route = "deprecated"], "Error")
    ELSE IF "blocked" \in d.fields THEN handleBlocked(c)
    ELSE IF "request" \in d.fields
        THEN HandlerRaised([c EXCEPT !.h.route = "deprecated"], "Error")
    ELSE HandlerRaised([c EXCEPT !.h.route = "emptysync"], "Error")

\* decrypt raised e inside the handler called by handleEnvelope.
DecryptRaised(c, e) ==
    HandlerRaised([c EXCEPT !.h.nIke = IF e = "IncomingIdentityKeyError"
                                       THEN @ + 1 ELSE @], e)

\* handleContentMessage after its await of decrypt.
handleContentMessage(c, plain, d) ==
    IF ~plain.ok THEN DecryptRaised(c, plain.val)
    ELSE IF ~d.ok THEN HandlerRaised(c, "Error")
    ELSE IF d.hasSync
        THEN handleSyncMessage([c EXCEPT !.obs.syn = [seen |-> TRUE, own |-> d.own,
                                                    samedev |-> d.samedev,
                                                    fields |-> d.fields,
                                                    nread |-> d.nread]], d)
    ELSE IF d.hasData THEN handleDataMessage(c, d.msg)
    ELSE HandlerRaised([c EXCEPT !.h.route = "emptycontent"], "Error")

\* handleLegacyMessage after its await of decrypt.
handleLegacyMessage(c, plain, d) ==
    IF ~plain.ok THEN DecryptRaised(c, plain.val)
    ELSE IF ~d.ok THEN HandlerRaised(c, "Error")
    ELSE handleDataMessage(c, d.msg)

\* ------------------------------------------------------------ SerialQueue
\* queueAsync(this, task): tasks of one owner run one at a time, in the
\* order submitted; a task that raises does not stop the queue.
queueAsync(r, rq) ==
    /\ queue' = Append(queue, r)
    /\ reqs' = [reqs EXCEPT ![r] = [rq EXCEPT !.pc = "queued"]]
    /\ UNCHANGED <<dispatched, responded, obs>>

\* A slip of the constructor: the request handler is called directly.
SubmitUnqueued(r, rq) ==
    /\ UNCHANGED queue
    /\ \E frame \in Frames :
           Run(r, handleRequest([h |-> [rq EXCEPT !.pc = "running"],
                                 log |-> dispatched, resp |-> responded[r],
                                 obs |-> obs], frame))

\* The handleRequest option given to the WebSocketResource.
Submit(r, rq) == queueAsync(r, rq)

\* -------------------------------------------------------------- transport
\* The socket of the WebSocketResource and the calls made on it: the socket
\* is open, connect() calls so far, close() has been called, connect() has
\* been called after close().
NoConn == [open |-> FALSE, nConnect |-> 0, closed |-> FALSE, lateConnect |-> FALSE]

\* Codes the transport's close event may carry: the terminal one and an
\* abnormal closure.
CloseCodes == {CLOSE_TERMINAL, 1006}

\* this.connect(): the transport opens its socket.
connect(cn) ==
    [cn EXCEPT !.open = TRUE, !.nConnect = @ + 1, !.lateConnect = @ \/ cn.closed]

\* onSocketClose up to its first await: the probe of the service.
onSocketClose(c, code) ==
    LET c1 == [c EXCEPT !.h.code = code, !.obs = NewObs(c.h.id)]
    IN  IF code = CLOSE_TERMINAL THEN Settle(c1, "returned")
        ELSE [c1 EXCEPT !.h.pc = "probe", !.h.probes = @ + 1]

\* The catch clause of the loop: getDevices failed.
probeFailed(c) == dispatchEvent([c EXCEPT !.h.attempt = @ + 1], "error", "backoff")

\* The sleep is over: the loop probes again.
sleepDone(c) == [c EXCEPT !.h.pc = "probe", !.h.probes = @ + 1]

\* ------------------------------------------------------------------ drain
\* The drain() call: its position, the locals more and deleting (the DELETE
\* requests of the current batch: pending, or one of them rejected), the
\* envelopes of the batch not yet handled, and histories: the envelopes the
\* server returned, those given to handleEnvelope, those a DELETE was issued
\* for (each in order).  Envelopes are numbered as the server returns them
\* and handled in the slot of that number.
NoDrain ==
    [pc |-> "idle",        \* "idle" | "fetch" | "handling" | "deleting" | "done" | "raised"
     nfetch |-> 0, more |-> FALSE, batch |-> <<>>, cur |-> 0,
     pending |-> {}, failed |-> FALSE,
     fetched |-> <<>>, handled |-> <<>>, deleted |-> <<>>]

\* The for loop of drain from its top: the next envelope of the batch is
\* given to handleEnvelope, and after the last one the DELETEs are awaited.
\* rq and log are the slots and the event history drain goes on with.
drainBatch(d, rq, log) ==
    IF d.batch = <<>>
    THEN /\ drain' = [d EXCEPT !.pc = "deleting", !.cur = 0]
         /\ reqs' = rq
         /\ dispatched' = log
         /\ obs' = NewObs(0)
         /\ UNCHANGED responded
    ELSE LET e == Head(d.batch)
         IN  /\ drain' = [d EXCEPT !.pc = "handling", !.cur = e, !.batch = Tail(@),
                                   !.handled = Append(@, e)]
             /\ \E env \in Envelopes :
                    RunIn(rq, e, handleEnvelope([h |-> [rq[e] EXCEPT !.pc = "running",
                                                                    !.caller = "drain",
                                                                    !.frame = "ok",
                                                                    !.env = env],
                                                 log |-> log,
                                                 resp |-> responded[e],
                                                 obs |-> NewObs(e)], FALSE))

\* The slot of an envelope drain has finished with.  drain keeps nothing of
\* an envelope it has handled, and neither do the histories: what is left is
\* how its handleEnvelope ended; its events leave the event history.
Handled(h) ==
    [NewRequest(h.id) EXCEPT !.pc = "done", !.caller = "drain",
                             !.out = h.out, !.envOut = h.envOut]

Forgotten(log, e) == SelectSeq(log, LAMBDA x : x.req # e)

\* A slip of drain: the DELETE is issued whether or not handleEnvelope
\* raised, and the loop goes on.
afterEnvelopeDeletesAlways(d, out) ==
    drainBatch([d EXCEPT !.deleted = Append(@, d.cur), !.pending = @ \cup {d.cur}],
               [reqs EXCEPT ![d.cur] = Handled(@)], Forgotten(dispatched, d.cur))

\* drain after its await of handleEnvelope, which ended by out: a raise
\* leaves drain; otherwise the DELETE is issued and the loop goes on.
afterEnvelope(d, out) ==
    IF out = "raised"
    THEN /\ drain' = [d EXCEPT !.pc = "raised", !.cur = 0]
         /\ reqs' = [reqs EXCEPT ![d.cur] = Handled(@)]
         /\ dispatched' = Forgotten(dispatched, d.cur)
         /\ obs' = NewObs(0)
         /\ UNCHANGED responded
    ELSE drainBatch([d EXCEPT !.deleted = Append(@, d.cur), !.pending = @ \cup {d.cur}],
                    [reqs EXCEPT ![d.cur] = Handled(@)], Forgotten(dispatched, d.cur))

\* A slip of drain: the DELETEs of the batch are not awaited.
afterDeletesNotAwaited(d) ==
    IF d.more THEN [d EXCEPT !.pc = "fetch"] ELSE [d EXCEPT !.pc = "done"]

\* drain after its await of Promise.all(deleting): a rejected DELETE leaves
\* drain, else the loop fetches again while the server reported more.
afterDeletes(d) ==
    IF d.failed THEN [d EXCEPT !.pc = "raised"]
    ELSE IF d.pending # {} THEN d
    ELSE IF d.more THEN [d EXCEPT !.pc = "fetch"]
    ELSE [d EXCEPT !.pc = "done"]

\* ---------------------------------------------------------------- actions
\* The application registers a listener.
AddEventListener ==
    /\ upc = "idle"
    /\ nlisteners < MaxListeners
    /\ \E name \in EventNames :
           listeners' = addEventListener(listeners, name, nlisteners + 1)
    /\ nlisteners' = nlisteners + 1
    /\ UNCHANGED <<reqs, queue, active, dispatched, responded, obs>>
    /\ UNCHANGED <<unpadVars, drainVars, connVars>>

\* The transport delivers its next request.
OnRequest ==
    /\ upc = "idle"
    /\ wsr
    /\ \E r \in Requests :
        /\ reqs[r].pc = "idle"
        /\ \A q \in Requests : q < r => reqs[q].pc # "idle"
        /\ \E verb \in Verbs, path \in Paths :
               Submit(r, [reqs[r] EXCEPT !.caller = "request",
                                         !.verb = verb, !.path = path])
    /\ UNCHANGED <<listeners, nlisteners, active>>
    /\ UNCHANGED <<unpadVars, drainVars, connVars>>

\* The queue executor starts the oldest waiting task.
QueueStart ==
    /\ active = 0
    /\ queue # <<>>
    /\ active' = Head(queue)
    /\ queue' = Tail(queue)
    /\ \E frame \in Frames :
           Run(Head(queue),
               handleRequest([Ctx(Head(queue)) EXCEPT !.h.pc = "running"], frame))
    /\ UNCHANGED <<listeners, nlisteners>>
    /\ UNCHANGED <<unpadVars, drainVars, connVars>>

\* The task the executor awaits has settled.
QueueSettle ==
    /\ active # 0
    /\ reqs[active].pc = "done"
    /\ active' = 0
    /\ UNCHANGED <<listeners, nlisteners, reqs, queue, dispatched, responded, obs>>
    /\ UNCHANGED <<unpadVars, drainVars, connVars>>

\* The session cipher settles and the handler runs on.
DecryptDone(r) ==
    /\ reqs[r].pc = "decrypt"
    /\ \E res \in CipherResults :
           LET c == [Ctx(r) EXCEPT !.h.pc = "running"]
               plain == decryptResume(reqs[r].env.type, res)
           IN  IF reqs[r].env.content
               THEN \E d \in IF plain.ok THEN Decodings ELSE {NoDecoding} :
                        Run(r, handleContentMessage(c, plain, d))
               ELSE \E d \in IF plain.ok THEN DataDecodings ELSE {NoDecoding} :
                        Run(r, handleLegacyMessage(c, plain, d))
    /\ UNCHANGED <<listeners, nlisteners, queue, active>>
    /\ UNCHANGED <<unpadVars, drainVars, connVars>>

\* storage.getDeviceIds settles; every device's session is then closed.
GetDeviceIdsDone(r) ==
    /\ reqs[r].pc = "getDeviceIds"
    /\ LET c == [Ctx(r) EXCEPT !.h.pc = "running"]
       IN  \/ \E e \in ServiceErrors : Run(r, HandlerRaised(c, e))
           \/ \E n \in 0..MaxDevices :
                  Run(r, closeSessions(c, n))
    /\ UNCHANGED <<listeners, nlisteners, queue, active>>
    /\ UNCHANGED <<unpadVars, drainVars, connVars>>

\* One closeOpenSessionForDevice settles.
CloseDone(r) ==
    /\ reqs[r].pc = "closing"
    /\ LET c == [Ctx(r) EXCEPT !.h.pc = "running"]
       IN  \/ \E e \in ServiceErrors : Run(r, HandlerRaised(c, e))
           \/ Run(r, sessionClosed(c))
    /\ UNCHANGED <<listeners, nlisteners, queue, active>>
    /\ UNCHANGED <<unpadVars, drainVars, connVars>>

\* One handleAttachment settles.
AttachmentDone(r) ==
    /\ reqs[r].pc = "attachments"
    /\ LET c == [Ctx(r) EXCEPT !.h.pc = "running"]
       IN  \/ \E e \in ServiceErrors : Run(r, HandlerRaised(c, e))
           \/ Run(r, IF reqs[r].pend = 1 THEN Emit([c EXCEPT !.h.pend = 0])
                     ELSE [c EXCEPT !.h.pc = "attachments", !.h.pend = @ - 1])
    /\ UNCHANGED <<listeners, nlisteners, queue, active>>
    /\ UNCHANGED <<unpadVars, drainVars, connVars>>

\* The listener being awaited settles; dispatchEvent goes on to the next
\* one, or returns to the statement that awaits it.
ListenerDone(r) ==
    /\ reqs[r].pc = "listener"
    /\ \E act \in ListenerActs :
           Run(r, listenerSettled([Ctx(r) EXCEPT !.h.pc = "running"], act))
    /\ UNCHANGED <<listeners, nlisteners, queue, active>>
    /\ UNCHANGED <<unpadVars, drainVars, connVars>>

\* The application calls drain(): a receiver with a transport refuses.
Drain ==
    /\ drain.pc = "idle"
    /\ drain' = [drain EXCEPT !.pc = IF wsr THEN "raised" ELSE "fetch"]
    /\ UNCHANGED <<listeners, nlisteners, reqs, queue, active, dispatched, responded, obs>>
    /\ UNCHANGED <<wsr, unpadVars, connVars>>

\* The request for the waiting messages settles: it fails, or the server
\* returns a batch of envelopes and whether there are more.
FetchDone ==
    /\ drain.pc = "fetch"
    /\ \/ /\ drain' = [drain EXCEPT !.pc = "raised"]
          /\ UNCHANGED <<reqs, dispatched, responded, obs>>
       \/ \E k \in 0..(MaxRequests - Len(drain.fetched)), more \in BOOLEAN :
              /\ drain.nfetch + 1 = MaxBatches => ~more
              /\ LET first == Len(drain.fetched)
                     batch == [i \in 1..k |-> first + i]
                 IN  drainBatch([drain EXCEPT !.nfetch = @ + 1, !.more = more,
                                              !.batch = batch,
                                              !.fetched = @ \o batch,
                                              !.pending = {}, !.failed = FALSE],
                                reqs, dispatched)
    /\ UNCHANGED <<listeners, nlisteners, queue, active>>
    /\ UNCHANGED <<wsr, unpadVars, connVars>>

\* handleEnvelope has settled and drain resumes from its await.
EnvelopeDone ==
    /\ drain.pc = "handling"
    /\ reqs[drain.cur].pc = "done"
    /\ afterEnvelope(drain, reqs[drain.cur].out)
    /\ UNCHANGED <<listeners, nlisteners, queue, active>>
    /\ UNCHANGED <<wsr, unpadVars, connVars>>

\* One DELETE request settles.
DeleteDone ==
    /\ \E e \in drain.pending :
           \/ drain' = [drain EXCEPT !.pending = @ \ {e}]
           \/ drain' = [drain EXCEPT !.pending = @ \ {e}, !.failed = TRUE]
    /\ UNCHANGED <<listeners, nlisteners, reqs, queue, active, dispatched, responded, obs>>
    /\ UNCHANGED <<wsr, unpadVars, connVars>>

\* Promise.all(deleting) settles and drain resumes from its await.
DeletesAwaited ==
    /\ drain.pc = "deleting"
    /\ drain' = afterDeletes(drain)
    /\ drain' # drain
    /\ UNCHANGED <<listeners, nlisteners, reqs, queue, active, dispatched, responded, obs>>
    /\ UNCHANGED <<wsr, unpadVars, connVars>>

\* The slot the next close event of the transport is handled in.
FreeSlot(r) == reqs[r].pc = "idle" /\ \A q \in Requests : q < r => reqs[q].pc # "idle"

\* The application calls connect() on a receiver not yet connected.
Connect ==
    /\ wsr /\ ~conn.open /\ conn.nConnect = 0 /\ ~conn.closed
    /\ conn' = connect(conn)
    /\ UNCHANGED <<listeners, nlisteners, reqs, queue, active, dispatched, responded, obs>>
    /\ UNCHANGED <<unpadVars, drainVars>>

\* The socket closes and the transport emits its close event.
SocketClose ==
    /\ conn.open
    /\ conn' = [conn EXCEPT !.open = FALSE]
    /\ \E r \in Requests, code \in CloseCodes :
           /\ FreeSlot(r)
           /\ Run(r, onSocketClose([Ctx(r) EXCEPT !.h.pc = "running",
                                                  !.h.caller = "close"], code))
    /\ UNCHANGED <<listeners, nlisteners, queue, active>>
    /\ UNCHANGED <<unpadVars, drainVars>>

\* The application calls close(): the transport closes its socket, if open,
\* with the terminal code.
Close ==
    /\ wsr
    /\ conn' = [conn EXCEPT !.open = FALSE, !.closed = TRUE]
    /\ IF conn.open
       THEN \E r \in Requests :
               /\ FreeSlot(r)
               /\ Run(r, onSocketClose([Ctx(r) EXCEPT !.h.pc = "running",
                                                      !.h.caller = "close"],
                                       CLOSE_TERMINAL))
       ELSE UNCHANGED <<reqs, dispatched, responded, obs>>
    /\ UNCHANGED <<listeners, nlisteners, queue, active>>
    /\ UNCHANGED <<unpadVars, drainVars>>

\* The probe of the service settles: on success the loop ends and connect()
\* is called; on failure an error event is dispatched.
ProbeDone(r) ==
    /\ reqs[r].pc = "probe"
    /\ LET c == [Ctx(r) EXCEPT !.h.pc = "running"]
       IN  \/ /\ Run(r, Settle([c EXCEPT !.h.connects = @ + 1], "returned"))
              /\ conn' = connect(conn)
           \/ /\ reqs[r].attempt < MaxAttempts
              /\ Run(r, probeFailed(c))
              /\ UNCHANGED conn
    /\ UNCHANGED <<listeners, nlisteners, queue, active>>
    /\ UNCHANGED <<unpadVars, drainVars>>

\* The backoff sleep is over.
SleepDone(r) ==
    /\ reqs[r].pc = "sleep"
    /\ Run(r, sleepDone(Ctx(r)))
    /\ UNCHANGED <<listeners, nlisteners, queue, active>>
    /\ UNCHANGED <<unpadVars, drainVars, connVars>>

\* unpad is called on a buffer.
UnpadCall ==
    /\ upc = "call"
    /\ ures' = unpad(ubuf)
    /\ upc' = "done"
    /\ UNCHANGED ubuf
    /\ UNCHANGED <<recvVars, drainVars, connVars>>

InitReceiver ==
    /\ listeners = NoListeners
    /\ nlisteners = 0
    /\ reqs = [r \in Requests |-> NewRequest(r)]
    /\ queue = <<>>
    /\ active = 0
    /\ dispatched = <<>>
    /\ responded = [r \in Requests |-> <<>>]
    /\ obs = NewObs(0)
    /\ drain = NoDrain
    /\ conn = NoConn

\* A receiver bound to a transport.
Init ==
    /\ InitReceiver
    /\ wsr = TRUE
    /\ ubuf = <<>>
    /\ ures = Returned(<<>>)
    /\ upc = "idle"

Next ==
    \/ AddEventListener
    \/ OnRequest
    \/ QueueStart
    \/ QueueSettle
    \/ \E r \in Requests : DecryptDone(r)
    \/ \E r \in Requests : GetDeviceIdsDone(r)
    \/ \E r \in Requests : CloseDone(r)
    \/ \E r \in Requests : AttachmentDone(r)
    \/ \E r \in Requests : ListenerDone(r)

Spec == Init /\ [][Next]_vars

\* drain() on a receiver built with or without a transport (the requests
\* of the transport are left to Spec).
InitDrain ==
    /\ InitReceiver
    /\ wsr \in BOOLEAN
    /\ ubuf = <<>>
    /\ ures = Returned(<<>>)
    /\ upc = "idle"

NextDrain ==
    \/ AddEventListener
    \/ Drain
    \/ FetchDone
    \/ EnvelopeDone
    \/ DeleteDone
    \/ DeletesAwaited
    \/ \E r \in Requests : DecryptDone(r)
    \/ \E r \in Requests : GetDeviceIdsDone(r)
    \/ \E r \in Requests : CloseDone(r)
    \/ \E r \in Requests : AttachmentDone(r)
    \/ \E r \in Requests : ListenerDone(r)

SpecDrain == InitDrain /\ [][NextDrain]_vars

\* The reconnect loop of a receiver built with a transport (the requests of
\* the transport are left to Spec).
InitReconnect ==
    /\ InitReceiver
    /\ wsr = TRUE
    /\ ubuf = <<>>
    /\ ures = Returned(<<>>)
    /\ upc = "idle"

NextReconnect ==
    \/ AddEventListener
    \/ Connect
    \/ SocketClose
    \/ Close
    \/ \E r \in Requests : ProbeDone(r)
    \/ \E r \in Requests : SleepDone(r)
    \/ \E r \in Requests : ListenerDone(r)

SpecReconnect == InitReconnect /\ [][NextReconnect]_vars

\* unpad alone, on every buffer over Bytes up to MaxBufLen.
InitUnpad ==
    /\ InitReceiver
    /\ wsr = TRUE
    /\ ubuf \in Buffers
    /\ ures = Returned(<<>>)
    /\ upc = "call"

NextUnpad == UnpadCall

SpecUnpad == InitUnpad /\ [][NextUnpad]_vars

\* ----------------------------------------------------------------- claims
Done(r) == reqs[r].pc = "done"
WellFormed(r) == reqs[r].verb = "PUT" /\ reqs[r].path = "/api/v1/message"
InFlight(r) == reqs[r].pc \notin {"idle", "queued", "done"}

\* The events request r gave to dispatchEvent, in order.
EventsOf(r) == SelectSeq(dispatched, LAMBDA e : e.req = r)
EventsOfType(r, types) == SelectSeq(dispatched, LAMBDA e : e.req = r /\ e.type \in types)

\* C1, as stated: every finished request, whatever its verb and path, got
\* exactly one respond call, with status 500 iff frame decoding failed and
\* 200 otherwise.
C1_EveryRequestAnswered ==
    \A r \in Requests :
        Done(r) =>
            /\ Len(responded[r]) = 1
            /\ responded[r][1] = 500 <=> reqs[r].frame = "bad"
            /\ reqs[r].frame # "bad" => responded[r][1] = 200

\* C1, amended: no request ever gets a second respond call, and every
\* finished PUT /api/v1/message request got exactly one, with status 500 iff
\* frame decoding failed and 200 otherwise.
C1_AckUnlessFrameBroken ==
    \A r \in Requests :
        /\ Len(responded[r]) <= 1
        /\ (Done(r) /\ WellFormed(r)) =>
              /\ Len(responded[r]) = 1
              /\ responded[r][1] = 500 <=> reqs[r].frame = "bad"
              /\ responded[r][1] = 200 <=> reqs[r].frame = "ok"

C1_Witness ==
    \E r, q \in Requests :
        /\ Done(r) /\ WellFormed(r) /\ reqs[r].frame = "bad"
        /\ responded[r] = <<500>>
        /\ Done(q) /\ WellFormed(q) /\ reqs[q].frame = "ok"
        /\ reqs[q].out = "raised" /\ responded[q] = <<200>>

\* C2: once the frame decoded, nothing is responded while handleEnvelope is
\* still running (a handler or a listener pending), and when handleRequest
\* has finished exactly one 200 was responded, handleEnvelope having
\* returned or raised.
C2_AckAfterEnvelope ==
    \A r \in Requests :
        reqs[r].frame = "ok" =>
            IF Done(r)
            THEN /\ responded[r] = <<200>>
                 /\ reqs[r].envOut \in {"returned", "raised"}
            ELSE /\ responded[r] = <<>>
                 /\ reqs[r].envOut = "none"

C2_Witness ==
    \E r \in Requests :
        /\ Done(r) /\ reqs[r].frame = "ok"
        /\ reqs[r].envOut = "raised"
        /\ listeners.set /\ "error" \in listeners.keys
        /\ EventsOfType(r, {"error"}) # <<>>
        /\ responded[r] = <<200>>

\* C3, as stated: a request with another verb or path is answered 400 and
\* handleRequest raises, without decrypting the frame or calling
\* handleEnvelope.
C3_BadRequestAnswered400 ==
    \A r \in Requests :
        (Done(r) /\ ~WellFormed(r)) =>
            /\ responded[r] = <<400>>
            /\ reqs[r].out = "raised"
            /\ reqs[r].frame = "none"
            /\ reqs[r].nEnter = 0

\* C4: at most one handleRequest is past its first await and not finished.
C4_AtMostOneInFlight ==
    Cardinality({r \in Requests : InFlight(r)}) <= 1

C4_Witness ==
    \E r, q \in Requests :
        /\ InFlight(r)
        /\ reqs[q].pc = "queued"
        /\ reqs[r].pc = "decrypt"

\* C5: events are dispatched in the order of arrival of their envelopes, and
\* when an event of a request is dispatched every earlier request has
\* finished, its listeners included.
C5_EventsInArrivalOrder ==
    /\ \A i, j \in 1..Len(dispatched) :
           i < j => dispatched[i].req <= dispatched[j].req
    /\ \A i \in 1..Len(dispatched) :
           \A r \in Requests : r < dispatched[i].req => Done(r)

C5_Witness ==
    \E i, j \in 1..Len(dispatched) :
        /\ i < j
        /\ dispatched[i].req = 1 /\ dispatched[j].req = 2
        /\ dispatched[i].type \in listeners.keys
        /\ reqs[2].pc = "listener"

\* The 1-based index of the first non-zero byte from the right, or 0.
LastNonZero(buf) ==
    IF \A i \in 1..Len(buf) : buf[i] = 0 THEN 0
    ELSE CHOOSE i \in 1..Len(buf) :
             buf[i] # 0 /\ \A j \in (i + 1)..Len(buf) : buf[j] = 0

\* C6: unpad(plaintext . 0x80 . 0^k) = plaintext, and unpad raises for a
\* buffer whose first non-zero byte from the right is not 0x80.
C6_PaddingRoundTrip ==
    upc = "done" =>
        /\ \A n \in 0..Len(ubuf), k \in 0..Len(ubuf) :
               ubuf = SubSeq(ubuf, 1, n) \o <<128>> \o Zeros(k) =>
                   ures.ok /\ ures.val = SubSeq(ubuf, 1, n)
        /\ (LastNonZero(ubuf) # 0 /\ ubuf[LastNonZero(ubuf)] # 128) => ~ures.ok

C6_Witness ==
    /\ upc = "done"
    /\ ubuf = <<128, 1, 128, 0>>
    /\ ures.ok /\ ures.val = <<128, 1>>

\* C7, as stated: unpad of a buffer of zero bytes only, of any length,
\* returns the empty byte sequence.
C7_AllZeroGivesEmpty ==
    (upc = "done" /\ \A i \in 1..Len(ubuf) : ubuf[i] = 0) =>
        ures.ok /\ ures.val = <<>>

\* C8: per envelope, handleEnvelope is entered with reentrant = true at most
\* once and at most one keychange event is dispatched, also when the
\* re-entered call raises an identity-key error.
C8_ReentryBounded ==
    \A r \in Requests :
        /\ reqs[r].nReentry <= 1
        /\ reqs[r].nEnter <= 2
        /\ Len(EventsOfType(r, {"keychange"})) <= 1
        /\ reqs[r].nIke <= 2

C8_Witness ==
    \E r \in Requests :
        /\ Done(r)
        /\ reqs[r].nIke = 2
        /\ reqs[r].nReentry = 1
        /\ Len(EventsOfType(r, {"keychange"})) = 1

\* C9, as stated: after an accepted key change the envelope was
\* re-dispatched once with keyChange set and the request answered 200, and
\* if the retry decrypted to a data message then one keychange event
\* followed by one message event with keyChange = true was emitted.
C9_AcceptedThenMessage ==
    \A r \in Requests :
        (Done(r) /\ reqs[r].accepted) =>
            /\ reqs[r].nReentry = 1
            /\ reqs[r].keyChange
            /\ responded[r] = <<200>>
            /\ reqs[r].route = "data" =>
                   EventsOfType(r, {"keychange", "message"})
                       = <<Ev(r, "keychange", FALSE), Ev(r, "message", TRUE)>>

\* C9, amended: the same, the message event being due only if the
\* processing of the retried data message (end-session handling, attachment
\* fetches) completed.
C9_KeyChangeAccepted ==
    \A r \in Requests :
        (Done(r) /\ reqs[r].accepted) =>
            /\ reqs[r].nReentry = 1
            /\ reqs[r].keyChange
            /\ responded[r] = <<200>>
            /\ (reqs[r].route = "data" /\ reqs[r].processed) =>
                   EventsOfType(r, {"keychange", "message"})
                       = <<Ev(r, "keychange", FALSE), Ev(r, "message", TRUE)>>
            /\ (reqs[r].route = "data" /\ ~reqs[r].processed) =>
                   EventsOfType(r, {"keychange", "message"})
                       = <<Ev(r, "keychange", FALSE)>>

C9_Witness ==
    \E r \in Requests :
        /\ Done(r) /\ reqs[r].accepted
        /\ reqs[r].route = "data" /\ reqs[r].processed
        /\ EventsOf(r) = <<Ev(r, "keychange", FALSE), Ev(r, "message", TRUE)>>
        /\ responded[r] = <<200>>
        /\ reqs[r].out = "returned"

\* C10, as stated: an identity-key error whose keychange event comes back
\* not accepted gives exactly one keychange event and no message, sent or
\* error event, no re-dispatch, no keyChange mark, handleEnvelope and
\* handleRequest returning normally, and a 200.
C10_KeyChangeRejected ==
    \A r \in Requests :
        (Done(r) /\ reqs[r].nIke >= 1 /\ ~reqs[r].accepted) =>
            /\ Len(EventsOfType(r, {"keychange"})) = 1
            /\ EventsOfType(r, {"message", "sent", "error"}) = <<>>
            /\ reqs[r].nReentry = 0
            /\ ~reqs[r].keyChange
            /\ reqs[r].envOut = "returned"
            /\ reqs[r].out = "returned"
            /\ responded[r] = <<200>>

\* The request whose handler started last, and whether its sync message
\* came from another address or from the receiver's own device.
Observed(r) == obs.req = r
ForeignSync == obs.syn.seen /\ (~obs.syn.own \/ obs.syn.samedev)

\* C11: a sync message whose envelope source is not the receiver's address,
\* or whose sourceDevice is the receiver's own device, fails: the handler
\* raises, an error event reports it, handleEnvelope raises; no message, sent
\* or read event is emitted, no session is closed and no end-session or
\* attachment step is started for that envelope.
C11_SyncGuards ==
    \A r \in Requests :
        (Observed(r) /\ ForeignSync) =>
            /\ reqs[r].route \in {"foreign", "self"}
            /\ reqs[r].route = "foreign" <=> ~obs.syn.own
            /\ EventsOfType(r, {"message", "sent", "read"}) = <<>>
            /\ EventsOfType(r, {"error"}) # <<>>
            /\ obs.es = "none" /\ obs.nClose = 0 /\ obs.nFetch = 0
            /\ reqs[r].pc \in {"listener", "done"}
            /\ reqs[r].pc = "listener" => reqs[r].ev = "error"
            /\ Done(r) => reqs[r].envOut = "raised" /\ reqs[r].out = "raised"

\* A sync message from the receiver's own device has failed, its error event
\* delivered to a listener.
C11_Witness ==
    \E r \in Requests :
        /\ Observed(r) /\ obs.syn.seen /\ obs.syn.own /\ obs.syn.samedev
        /\ Done(r) /\ reqs[r].envOut = "raised"
        /\ listeners.cbs["error"] # <<>>
        /\ EventsOf(r) = <<Ev(r, "error", FALSE)>>


\* C12, as stated: whenever handleRequest (or the handleEnvelope it awaits)
\* raised to its caller, an error event of that request was dispatched
\* before.
C12_ErrorEventBeforeRaise ==
    \A r \in Requests :
        (Done(r) /\ reqs[r].out = "raised") => EventsOfType(r, {"error"}) # <<>>


\* A sync message that passed the guards is being handled for request r.
OwnSync(r) == Observed(r) /\ obs.syn.seen /\ ~ForeignSync /\ ~Done(r)

\* The first variant that matches, in the order given.
RECURSIVE FirstMatch(_, _, _)
FirstMatch(order, fields, nread) ==
    IF order = <<>> THEN "emptysync"
    ELSE IF Head(order) \in fields /\ (Head(order) = "read" => nread > 0)
        THEN (IF Head(order) \in {"contacts", "groups", "request"}
              THEN "deprecated" ELSE Head(order))
    ELSE FirstMatch(Tail(order), fields, nread)

C17_ListenersInOrder ==
    [][\A r \in Requests :
          (reqs[r].pc = "listener" /\ reqs'[r] # reqs[r]) =>
              LET cbs == listeners.cbs[reqs[r].ev]
              IN  /\ reqs[r].li \in 1..Len(cbs)
                  /\ reqs[r].cur = cbs[reqs[r].li]
                  /\ \A i \in 1..(Len(cbs) - 1) : cbs[i] < cbs[i + 1]
                  /\ IF reqs[r].li < Len(cbs)
                     THEN /\ reqs'[r].pc = "listener"
                          /\ reqs'[r].ev = reqs[r].ev
                          /\ reqs'[r].li = reqs[r].li + 1
                          /\ reqs'[r].cur = cbs[reqs[r].li + 1]
                          /\ dispatched' = dispatched
                          /\ obs'.nRet = obs.nRet /\ obs'.nRaise = obs.nRaise
                     ELSE obs'.nRet = obs.nRet + 1]_vars

\* The first of two listeners of an event raised; the second is being
\* awaited.
C17_Witness ==
    \E r \in Requests :
        /\ reqs[r].pc = "listener" /\ reqs[r].caught
        /\ Len(listeners.cbs[reqs[r].ev]) = 2
        /\ reqs[r].li = 2 /\ reqs[r].cur = listeners.cbs[reqs[r].ev][2]


\* The message and sent events of request r, and the handling of an
\* END_SESSION message for request r.
Emitted(r) == EventsOfType(r, {"message", "sent"})
EndSession(r) == Observed(r) /\ obs.es # "none"

\* C18, as stated: for a data message with END_SESSION set, no attachment
\* is fetched, the event is dispatched only after a close was called and
\* completed for every listed device, and once the handler is done exactly
\* one message (or sent) event has been emitted.
C18_EndSessionOneEvent ==
    \A r \in Requests :
        EndSession(r) =>
            /\ obs.nFetch = 0 /\ reqs[r].pc # "attachments"
            /\ Emitted(r) # <<>> => obs.listed /\ obs.nClose = obs.ndev
                                             /\ obs.nClosed = obs.ndev
            /\ Done(r) => Len(Emitted(r)) = 1

\* C18, amended: the same, the one event being due only if getDeviceIds and
\* every close succeeded; otherwise none is emitted.  The sessions closed
\* are those of envelope.source for a data message and of sent.destination
\* for a sent-sync.
C18_EndSession ==
    \A r \in Requests :
        EndSession(r) =>
            /\ reqs[r].route \in {"data", "sent"}
            /\ obs.es = (IF reqs[r].route = "sent" THEN "destination" ELSE "source")
            /\ obs.nFetch = 0 /\ reqs[r].pc # "attachments"
            /\ obs.nClose = (IF obs.listed THEN obs.ndev ELSE 0)
            /\ obs.nClosed <= obs.nClose
            /\ Len(Emitted(r)) <= 1
            /\ Emitted(r) # <<>> =>
                   /\ obs.listed /\ obs.nClosed = obs.ndev
                   /\ Emitted(r)[1].type
                          = (IF reqs[r].route = "sent" THEN "sent" ELSE "message")
            /\ (Done(r) /\ obs.listed /\ obs.nClosed = obs.ndev) => Len(Emitted(r)) = 1

\* A sent-sync with END_SESSION: the session of the one listed device of
\* the destination was closed, then the sent event was emitted.
C18_Witness ==
    \E r \in Requests :
        /\ EndSession(r) /\ Done(r)
        /\ obs.es = "destination"
        /\ obs.ndev = MaxDevices /\ obs.nClosed = MaxDevices
        /\ EventsOf(r) = <<Ev(r, "sent", FALSE)>>


\* C19, as stated: no dispatchEvent call raises, whatever the registry
\* holds, and a receipt ends its handler normally.
C19_DispatchNeverRaises ==
    /\ obs.nRaise = 0
    /\ \A r \in Requests :
           (Done(r) /\ reqs[r].route = "receipt") => reqs[r].envOut = "returned"


Range(s) == {s[i] : i \in 1..Len(s)}
IsPrefix(s, t) == Len(s) <= Len(t) /\ s = SubSeq(t, 1, Len(s))

\* C14: on a receiver without a transport, drain gives the envelopes to
\* handleEnvelope in the order the server returned them, each once and one at
\* a time; a DELETE is issued for an envelope after its handleEnvelope, in
\* the same order; a further batch is fetched only when the DELETEs of the
\* batch have been awaited and the server reported more; and drain completes
\* only when the server reported no more, with every returned envelope
\* handled and its DELETE issued and settled.
C14_DrainInOrder ==
    ~wsr =>
        /\ IsPrefix(drain.handled, drain.fetched)
        /\ IsPrefix(drain.deleted, drain.handled)
        /\ Len(drain.handled) <= Len(drain.deleted) + 1
        /\ \A i, j \in 1..Len(drain.handled) :
               i # j => drain.handled[i] # drain.handled[j]
        /\ \A r \in Requests :
               /\ reqs[r].pc # "idle" => r \in Range(drain.handled)
               /\ ~Done(r) /\ r \in Range(drain.handled) =>
                      drain.pc = "handling" /\ drain.cur = r
                          /\ r = drain.handled[Len(drain.handled)]
               /\ r \in Range(drain.deleted) => Done(r)
        /\ drain.pending \subseteq Range(drain.deleted)
        /\ (drain.pc = "fetch" /\ drain.nfetch > 0) =>
               /\ drain.more
               /\ drain.pending = {} /\ ~drain.failed
               /\ drain.deleted = drain.fetched
        /\ drain.pc = "done" =>
               /\ ~drain.more /\ drain.nfetch >= 1
               /\ drain.handled = drain.fetched
               /\ drain.deleted = drain.fetched
               /\ drain.pending = {} /\ ~drain.failed
               /\ \A r \in Range(drain.fetched) : Done(r)

\* Two envelopes returned with more = false: drain completed, both handled
\* in order and both DELETEs issued and settled.
C14_Witness ==
    /\ ~wsr /\ drain.pc = "done" /\ drain.nfetch = 1
    /\ drain.fetched = <<1, 2>>
    /\ drain.handled = <<1, 2>> /\ drain.deleted = <<1, 2>>
    /\ drain.pending = {}


\* drain has raised: it issues no DELETE, handles no envelope and fetches no
\* batch any more.
DrainStaysRaised ==
    drain.pc = "raised" =>
        /\ drain'.pc = "raised"
        /\ drain'.nfetch = drain.nfetch
        /\ drain'.fetched = drain.fetched
        /\ drain'.handled = drain.handled
        /\ drain'.deleted = drain.deleted

\* C20: a DELETE is issued only for an envelope whose handleEnvelope
\* returned without raising; when handleEnvelope raises for an envelope,
\* that envelope gets no DELETE, it is the last one handled, and drain
\* raises as soon as it resumes and then does nothing more.
C20_DeleteOnlyAfterReturn ==
    /\ [](\A r \in Requests :
             /\ r \in Range(drain.deleted) =>
                    Done(r) /\ reqs[r].envOut = "returned"
             /\ (r \in Range(drain.handled) /\ Done(r) /\ reqs[r].envOut = "raised") =>
                    /\ r \notin Range(drain.deleted)
                    /\ r = drain.handled[Len(drain.handled)]
                    /\ \/ drain.pc = "raised"
                       \/ drain.pc = "handling" /\ drain.cur = r)
    /\ [][DrainStaysRaised]_vars

\* handleEnvelope raised for the first of two envelopes of a batch: drain
\* raised, no DELETE was issued and the second envelope was never handled.
C20_Witness ==
    /\ ~wsr /\ drain.pc = "raised"
    /\ drain.fetched = <<1, 2>> /\ drain.handled = <<1>>
    /\ reqs[1].envOut = "raised" /\ reqs[2].pc = "idle"
    /\ drain.deleted = <<>> /\ drain.batch = <<2>>


\* C13, as stated: once close() has been called, connect() is never called
\* on the transport again.
C13_CloseIsFinal == ~conn.lateConnect

\* The calls of onSocketClose.
CloseHandlers == {r \in Requests : reqs[r].caller = "close"}

\* C16, as stated: a close with code 3000 makes no probe and no connect; for
\* any other code every failed probe is followed by exactly one error event
\* and then one sleep before the next probe, attempt counting the failures,
\* and the loop ends only with a successful probe followed by exactly one
\* connect.
C16_ReconnectLoop ==
    \A r \in CloseHandlers :
        /\ reqs[r].code = CLOSE_TERMINAL =>
               Done(r) /\ reqs[r].probes = 0 /\ reqs[r].connects = 0
                       /\ EventsOf(r) = <<>>
        /\ reqs[r].code # CLOSE_TERMINAL =>
               /\ Len(EventsOfType(r, {"error"})) = reqs[r].attempt
               /\ reqs[r].pc = "probe" =>
                      reqs[r].probes = reqs[r].attempt + 1
                          /\ reqs[r].sleeps = reqs[r].attempt
               /\ reqs[r].pc = "listener" =>
                      reqs[r].probes = reqs[r].attempt
                          /\ reqs[r].sleeps = reqs[r].attempt - 1
               /\ reqs[r].pc = "sleep" =>
                      reqs[r].probes = reqs[r].attempt
                          /\ reqs[r].sleeps = reqs[r].attempt
               /\ reqs[r].connects = (IF Done(r) THEN 1 ELSE 0)
               /\ Done(r) => reqs[r].out = "returned"
                                 /\ reqs[r].probes = reqs[r].attempt + 1
                                 /\ reqs[r].sleeps = reqs[r].attempt

====
